---- MODULE Spec2Model ----
(***************************************************************************)
(* Model of the Tech Innovation Hub intern management system (techhub.js). *)
(* The state is the roster held by a TaskManager (an ordered list of       *)
(* Attachee records, each with its task list, feedback list and            *)
(* performanceScore), the last call made on it and what that call returned *)
(* or threw.  Every method of Attachee and TaskManager that changes or     *)
(* reads the roster is one action.                                         *)
(***************************************************************************)
EXTENDS Integers, Sequences, FiniteSets, TLC

\* ---- bounds of the model ----
\* objects held by the roster: attachee records, their tasks and feedback entries
MaxObjects == 4

\* ---- inputs callers may pass ----
validDivisions == <<"Engineering", "Tech Programs", "Radio Support", "Hub Support">>
ValidDivisionSet == {validDivisions[k] : k \in 1..Len(validDivisions)}
DivisionArgs == ValidDivisionSet \cup {"Marketing"}
\* people of the example usage, one for each division, and one whose division is
\* not a hub division
Persons ==
    { [name |-> "Omar Haitham", email |-> "omarhaitham@example.com", division |-> "Engineering"],
      [name |-> "Mary Brown", email |-> "maryb@example.com", division |-> "Tech Programs"],
      [name |-> "Diana Charles", email |-> "diana@example.com", division |-> "Radio Support"],
      [name |-> "Cynthia Adams", email |-> "cyadams@example.com", division |-> "Hub Support"],
      [name |-> "Eve Stone", email |-> "eve@example.com", division |-> "Marketing"] }
Emails == {p.email : p \in Persons}
Descriptions == {"Develop API endpoint"}
Deadlines == {"2023-06-15"}
Priorities == {4}
CompletionDates == {"2023-06-08", "2023-06-09"}
FeedbackTexts == {"Excellent work"}
Reviewers == {"Supervisor A"}
Clock == {"2023-06-20T00:00:00.000Z"}
ScoreArgs == {-199, 99, 100}
null == "null"
undefined == [kind |-> "undefined"]

VARIABLES attachees, lastOp, result
vars == <<attachees, lastOp, result>>

\* ---- helpers standing for built-in JavaScript functions ----
\* Math.round on the quotient num/den (den > 0): nearest integer, ties toward +Infinity
MathRound(num, den) == (2 * num + den) \div (2 * den)

RECURSIVE SumScores(_)
\* feedback.reduce((sum, entry) => sum + entry.score, 0)
SumScores(fb) == IF fb = <<>> THEN 0 ELSE SumScores(SubSeq(fb, 1, Len(fb) - 1)) + fb[Len(fb)].score

\* Array.prototype.find over the positions that satisfy the test: the first of them,
\* 0 when there is none
ArrayFind(hits) ==
    IF hits = {} THEN 0 ELSE CHOOSE k \in hits : \A j \in hits : k <= j

\* ---- class Attachee ----
\* variant: the membership test is dropped, every division is accepted
validateDivision_AcceptAll(division) == [kind |-> "return", value |-> division]

validateDivision(division) ==
    IF division \notin ValidDivisionSet
    THEN [kind |-> "throw", error |-> "Invalid division. Must be one of: Engineering, Tech Programs, Radio Support, Hub Support"]
    ELSE [kind |-> "return", value |-> division]

Attachee(name, email, division) ==
    LET v == validateDivision(division) IN
    IF v.kind = "throw" THEN v
    ELSE [kind |-> "return",
          value |-> [name |-> name, email |-> email, division |-> v.value,
                     tasks |-> <<>>, feedback |-> <<>>, performanceScore |-> 0]]

\* variant: ids start at 0 (the length before the push, without the + 1)
assignTask_ZeroBased(a, taskDescription, deadline, priority) ==
    LET newTask == [id |-> Len(a.tasks), description |-> taskDescription,
                    deadline |-> deadline, priority |-> priority,
                    completed |-> FALSE, completionDate |-> null]
    IN [a EXCEPT !.tasks = Append(@, newTask)]

assignTask(a, taskDescription, deadline, priority) ==
    LET newTask == [id |-> Len(a.tasks) + 1, description |-> taskDescription,
                    deadline |-> deadline, priority |-> priority,
                    completed |-> FALSE, completionDate |-> null]
    IN [a EXCEPT !.tasks = Append(@, newTask)]

\* variant: the id is used as a 0-based array index instead of being searched for
completeTask_ByIndex(a, taskId, completionDate) ==
    IF taskId + 1 \in 1..Len(a.tasks)
    THEN [a EXCEPT !.tasks[taskId + 1].completed = TRUE,
                   !.tasks[taskId + 1].completionDate = completionDate]
    ELSE a

\* variant: the completion flag is toggled instead of set
completeTask_Toggle(a, taskId, completionDate) ==
    LET k == ArrayFind({j \in 1..Len(a.tasks) : a.tasks[j].id = taskId}) IN
    IF k # 0
    THEN [a EXCEPT !.tasks[k].completed = ~@, !.tasks[k].completionDate = completionDate]
    ELSE a

completeTask(a, taskId, completionDate) ==
    LET k == ArrayFind({j \in 1..Len(a.tasks) : a.tasks[j].id = taskId}) IN
    IF k # 0
    THEN [a EXCEPT !.tasks[k].completed = TRUE, !.tasks[k].completionDate = completionDate]
    ELSE a

\* variant: Math.floor instead of Math.round
calculatePerformanceScore_Floor(a) ==
    IF Len(a.feedback) = 0 THEN a
    ELSE [a EXCEPT !.performanceScore = SumScores(a.feedback) \div Len(a.feedback)]

\* variant: the total is stored without dividing by the number of entries
calculatePerformanceScore_Total(a) ==
    IF Len(a.feedback) = 0 THEN a
    ELSE [a EXCEPT !.performanceScore = SumScores(a.feedback)]

calculatePerformanceScore(a) ==
    IF Len(a.feedback) = 0 THEN a
    ELSE [a EXCEPT !.performanceScore = MathRound(SumScores(a.feedback), Len(a.feedback))]

addFeedback(a, feedbackText, score, reviewer, now) ==
    calculatePerformanceScore(
        [a EXCEPT !.feedback = Append(@, [text |-> feedbackText, score |-> score,
                                          reviewer |-> reviewer, date |-> now])])

getPerformanceSummary(a) ==
    LET completedTasks == Len(SelectSeq(a.tasks, LAMBDA t : t.completed))
        pendingTasks == Len(a.tasks) - completedTasks
    IN [name |-> a.name, division |-> a.division, performanceScore |-> a.performanceScore,
        tasksAssigned |-> Len(a.tasks), tasksCompleted |-> completedTasks,
        tasksPending |-> pendingTasks, feedbackCount |-> Len(a.feedback)]

\* ---- class TaskManager ----
\* variant: a failed search falls back to the first record
findByEmail_FirstOnMiss(list, email) ==
    LET k == ArrayFind({j \in 1..Len(list) : list[j].email = email}) IN
    IF k = 0 /\ Len(list) > 0 THEN 1 ELSE k

findByEmail(list, email) == ArrayFind({j \in 1..Len(list) : list[j].email = email})

getAttacheesByDivision(list, division) ==
    {k \in 1..Len(list) : list[k].division = division}

ReportKeys == ValidDivisionSet \cup {"overallStats"}

\* variant: the running minimum is seeded with 0 like the running maximum
InitialReport_LowestSeedZero(list) ==
    [k \in ReportKeys |->
        IF k = "overallStats"
        THEN [totalAttachees |-> Len(list), averageScore |-> 0, highestScore |-> 0, lowestScore |-> 0]
        ELSE <<>>]

InitialReport(list) ==
    [k \in ReportKeys |->
        IF k = "overallStats"
        THEN [totalAttachees |-> Len(list), averageScore |-> 0, highestScore |-> 0, lowestScore |-> 100]
        ELSE <<>>]

\* variant: the summary is put at the front of its division list (unshift for push)
ReportStep_Unshift(acc, a) ==
    LET summary == getPerformanceSummary(a)
        r1 == [acc.report EXCEPT ![a.division] = <<summary>> \o @]
        r2 == IF summary.performanceScore > r1["overallStats"].highestScore
              THEN [r1 EXCEPT !["overallStats"].highestScore = summary.performanceScore]
              ELSE r1
        r3 == IF summary.performanceScore < r2["overallStats"].lowestScore
              THEN [r2 EXCEPT !["overallStats"].lowestScore = summary.performanceScore]
              ELSE r2
    IN [report |-> r3, totalScore |-> acc.totalScore + summary.performanceScore, count |-> acc.count + 1]

\* one iteration of the forEach of generatePerformanceReport
ReportStep(acc, a) ==
    LET summary == getPerformanceSummary(a)
        r1 == [acc.report EXCEPT ![a.division] = Append(@, summary)]
        r2 == IF summary.performanceScore > r1["overallStats"].highestScore
              THEN [r1 EXCEPT !["overallStats"].highestScore = summary.performanceScore]
              ELSE r1
        r3 == IF summary.performanceScore < r2["overallStats"].lowestScore
              THEN [r2 EXCEPT !["overallStats"].lowestScore = summary.performanceScore]
              ELSE r2
    IN [report |-> r3, totalScore |-> acc.totalScore + summary.performanceScore, count |-> acc.count + 1]

RECURSIVE ReportFold(_, _)
ReportFold(list, n) ==
    IF n = 0 THEN [report |-> InitialReport(list), totalScore |-> 0, count |-> 0]
    ELSE ReportStep(ReportFold(list, n - 1), list[n])

\* variant: the empty-roster branch resets only averageScore
generatePerformanceReport_NoReset(list) ==
    LET acc == ReportFold(list, Len(list)) IN
    IF acc.count > 0
    THEN [acc.report EXCEPT !["overallStats"].averageScore = MathRound(acc.totalScore, acc.count)]
    ELSE [acc.report EXCEPT !["overallStats"].averageScore = 0]

generatePerformanceReport(list) ==
    LET acc == ReportFold(list, Len(list)) IN
    IF acc.count > 0
    THEN [acc.report EXCEPT !["overallStats"].averageScore = MathRound(acc.totalScore, acc.count)]
    ELSE [acc.report EXCEPT !["overallStats"].averageScore = 0,
                            !["overallStats"].highestScore = 0,
                            !["overallStats"].lowestScore = 0]

\* ---- sizes used by the guards ----
RECURSIVE TotalTasks(_)
TotalTasks(list) == IF list = <<>> THEN 0 ELSE Len(Head(list).tasks) + TotalTasks(Tail(list))
RECURSIVE TotalFeedback(_)
TotalFeedback(list) == IF list = <<>> THEN 0 ELSE Len(Head(list).feedback) + TotalFeedback(Tail(list))
TotalObjects(list) == Len(list) + TotalTasks(list) + TotalFeedback(list)

\* ---- state machine ----
Init ==
    /\ attachees = <<>>
    /\ lastOp = [op |-> "constructor", found |-> TRUE]
    /\ result = undefined

AddAttachee(name, email, division) ==
    LET newAttachee == Attachee(name, email, division) IN
    /\ lastOp' = [op |-> "addAttachee", found |-> newAttachee.kind # "throw"]
    /\ IF newAttachee.kind = "throw"
       THEN /\ attachees' = attachees
            /\ result' = newAttachee
       ELSE /\ TotalObjects(attachees) < MaxObjects
            /\ attachees' = Append(attachees, newAttachee.value)
            /\ result' = newAttachee

RemoveAttachee(email) ==
    /\ attachees' = SelectSeq(attachees, LAMBDA a : a.email # email)
    /\ lastOp' = [op |-> "removeAttachee", found |-> findByEmail(attachees, email) # 0]
    /\ result' = undefined

AssignTask(i, taskDescription, deadline, priority) ==
    /\ i \in 1..Len(attachees)
    /\ TotalObjects(attachees) < MaxObjects
    /\ attachees' = [attachees EXCEPT ![i] = assignTask(@, taskDescription, deadline, priority)]
    /\ lastOp' = [op |-> "assignTask", found |-> TRUE]
    /\ result' = undefined

CompleteTask(i, taskId, completionDate) ==
    /\ i \in 1..Len(attachees)
    /\ lastOp' = [op |-> "completeTask",
                  found |-> \E k \in 1..Len(attachees[i].tasks) : attachees[i].tasks[k].id = taskId]
    /\ attachees' = [attachees EXCEPT ![i] = completeTask(@, taskId, completionDate)]
    /\ result' = undefined

AddFeedback(i, feedbackText, score, reviewer, now) ==
    /\ i \in 1..Len(attachees)
    /\ TotalObjects(attachees) < MaxObjects
    /\ attachees' = [attachees EXCEPT ![i] = addFeedback(@, feedbackText, score, reviewer, now)]
    /\ lastOp' = [op |-> "addFeedback", found |-> TRUE]
    /\ result' = undefined

AssignTaskToDivision(division, taskDescription, deadline, priority) ==
    LET divisionAttachees == getAttacheesByDivision(attachees, division) IN
    /\ TotalObjects(attachees) + Cardinality(divisionAttachees) <= MaxObjects
    /\ attachees' = [k \in 1..Len(attachees) |->
                        IF k \in divisionAttachees
                        THEN assignTask(attachees[k], taskDescription, deadline, priority)
                        ELSE attachees[k]]
    /\ lastOp' = [op |-> "assignTaskToDivision", found |-> divisionAttachees # {}]
    /\ result' = undefined

AssignTaskToAttachee(email, taskDescription, deadline, priority) ==
    LET k == findByEmail(attachees, email) IN
    /\ k # 0 => TotalObjects(attachees) < MaxObjects
    /\ attachees' = IF k # 0
                    THEN [attachees EXCEPT ![k] = assignTask(@, taskDescription, deadline, priority)]
                    ELSE attachees
    /\ lastOp' = [op |-> "assignTaskToAttachee", found |-> k # 0]
    /\ result' = undefined

AddFeedbackToAttachee(email, feedbackText, score, reviewer, now) ==
    LET k == findByEmail(attachees, email) IN
    /\ k # 0 => TotalObjects(attachees) < MaxObjects
    /\ attachees' = IF k # 0
                    THEN [attachees EXCEPT ![k] = addFeedback(@, feedbackText, score, reviewer, now)]
                    ELSE attachees
    /\ lastOp' = [op |-> "addFeedbackToAttachee", found |-> k # 0]
    /\ result' = undefined

GeneratePerformanceReport ==
    /\ attachees' = attachees
    /\ lastOp' = [op |-> "generatePerformanceReport", found |-> TRUE]
    /\ result' = [kind |-> "return", value |-> generatePerformanceReport(attachees)]

TaskIdArgs == {1, 2, 3}

Next ==
    \/ \E p \in Persons : AddAttachee(p.name, p.email, p.division)
    \/ \E e \in Emails : RemoveAttachee(e)
    \/ \E i \in 1..Len(attachees), t \in Descriptions, dl \in Deadlines, p \in Priorities :
          AssignTask(i, t, dl, p)
    \/ \E i \in 1..Len(attachees), id \in TaskIdArgs, cd \in CompletionDates : CompleteTask(i, id, cd)
    \/ \E i \in 1..Len(attachees), t \in FeedbackTexts, s \in ScoreArgs, r \in Reviewers, now \in Clock :
          AddFeedback(i, t, s, r, now)
    \/ \E d \in DivisionArgs, t \in Descriptions, dl \in Deadlines, p \in Priorities :
          AssignTaskToDivision(d, t, dl, p)
    \/ \E e \in Emails, t \in Descriptions, dl \in Deadlines, p \in Priorities :
          AssignTaskToAttachee(e, t, dl, p)
    \/ \E e \in Emails, t \in FeedbackTexts, s \in ScoreArgs, r \in Reviewers, now \in Clock :
          AddFeedbackToAttachee(e, t, s, r, now)
    \/ GeneratePerformanceReport

Spec == Init /\ [][Next]_vars

\* ---- vocabulary of the properties ----
FeedbackOps == {"addFeedback", "addFeedbackToAttachee"}
FourDivisions == {"Engineering", "Tech Programs", "Radio Support", "Hub Support"}
Stats == result.value["overallStats"]
ReportReturned == lastOp.op = "generatePerformanceReport" /\ result.kind = "return"
Scores(list) == [k \in 1..Len(list) |-> list[k].performanceScore]
\* r is the mean total/n rounded to the nearest integer, a tie going up
IsRoundHalfUp(r, total, n) == 2 * n * r - n <= 2 * total /\ 2 * total < 2 * n * r + n
NoMatch(list, email) == \A k \in 1..Len(list) : list[k].email # email
InRange(a) == \A k \in 1..Len(a.feedback) : a.feedback[k].score \in 0..100

\* state part of C1: performanceScore is 0 without feedback, else the mean of the
\* feedback scores rounded half up.
C1_ScoreIsMean ==
    \A k \in 1..Len(attachees) :
        LET a == attachees[k] IN
        IF a.feedback = <<>> THEN a.performanceScore = 0
        ELSE IsRoundHalfUp(a.performanceScore, SumScores(a.feedback), Len(a.feedback))

\* step part of C1: only appending feedback changes a record's performanceScore;
\* other operations keep the scores of the records they keep.
C1_OnlyFeedbackChangesScore ==
    /\ lastOp'.op \notin (FeedbackOps \cup {"addAttachee", "removeAttachee"})
          => Scores(attachees') = Scores(attachees)
    /\ lastOp'.op = "addAttachee"
          => SubSeq(Scores(attachees'), 1, Len(attachees)) = Scores(attachees)
    /\ lastOp'.op = "removeAttachee"
          => \E e \in Emails :
                Scores(attachees') = Scores(SelectSeq(attachees, LAMBDA a : a.email # e))
    /\ lastOp'.op \in FeedbackOps
          => \A k \in 1..Len(attachees) :
                attachees'[k].feedback = attachees[k].feedback
                    => attachees'[k].performanceScore = attachees[k].performanceScore

\* C1: in every reachable state each attachee's performanceScore is 0 when it has
\* no feedback and otherwise round-half-up of the mean of its feedback scores, and
\* no operation other than appending feedback changes a performanceScore.
C1_PerformanceScore == []C1_ScoreIsMean /\ [][C1_OnlyFeedbackChangesScore]_vars

\* a record whose two feedback scores have a mean ending in .5, right after feedback
C1_Witness ==
    /\ lastOp.op \in FeedbackOps
    /\ \E k \in 1..Len(attachees) :
          /\ Len(attachees[k].feedback) = 2
          /\ SumScores(attachees[k].feedback) = 199
          /\ attachees[k].performanceScore = 100

\* step part of C2: outcome of addAttachee for each argument triple
C2_AddAttacheeOutcome ==
    lastOp'.op = "addAttachee" =>
    \A p \in Persons :
        AddAttachee(p.name, p.email, p.division) =>
            IF p.division \notin FourDivisions
            THEN /\ result'.kind = "throw"
                 /\ attachees' = attachees
            ELSE /\ result'.kind = "return"
                 /\ Len(attachees') = Len(attachees) + 1
                 /\ SubSeq(attachees', 1, Len(attachees)) = attachees
                 /\ LET a == attachees'[Len(attachees')] IN
                       /\ a.name = p.name /\ a.email = p.email /\ a.division = p.division
                       /\ a.tasks = <<>> /\ a.feedback = <<>> /\ a.performanceScore = 0
                       /\ result'.value = a

C2_DivisionsValid == \A k \in 1..Len(attachees) : attachees[k].division \in FourDivisions

\* C2: addAttachee with a division outside the four hub divisions throws and leaves
\* the roster as it was; with a valid division it appends exactly one record with
\* empty tasks and feedback and score 0 at the end; every record's division is one
\* of the four.
C2_InvalidDivision == []C2_DivisionsValid /\ [][C2_AddAttacheeOutcome]_vars

\* addAttachee has just thrown on a roster that holds a record
C2_Witness ==
    /\ lastOp.op = "addAttachee"
    /\ result.kind = "throw"
    /\ Len(attachees) >= 1

\* C3: generatePerformanceReport on an empty roster returns totalAttachees,
\* averageScore, highestScore and lowestScore all 0 (never the seed 100).
C3_EmptyRosterReport ==
    (ReportReturned /\ attachees = <<>>) =>
        Stats = [totalAttachees |-> 0, averageScore |-> 0, highestScore |-> 0, lowestScore |-> 0]

\* a report has just been produced from an empty roster
C3_Witness == ReportReturned /\ attachees = <<>> /\ Stats.lowestScore = 0

\* ---- report properties ----
PerformanceScores(list) == {list[k].performanceScore : k \in 1..Len(list)}
RECURSIVE TotalPerformance(_)
TotalPerformance(list) ==
    IF list = <<>> THEN 0 ELSE Head(list).performanceScore + TotalPerformance(Tail(list))

\* C4: for a non-empty roster whose feedback scores are all in [0,100] the report's
\* overallStats hold the number of records, the maximum and the minimum
\* performanceScore, and the mean performanceScore rounded half up.
C4_OverallStats ==
    (ReportReturned /\ attachees # <<>> /\ \A k \in 1..Len(attachees) : InRange(attachees[k])) =>
        /\ Stats.totalAttachees = Len(attachees)
        /\ Stats.highestScore \in PerformanceScores(attachees)
        /\ \A v \in PerformanceScores(attachees) : v <= Stats.highestScore
        /\ Stats.lowestScore \in PerformanceScores(attachees)
        /\ \A v \in PerformanceScores(attachees) : v >= Stats.lowestScore
        /\ IsRoundHalfUp(Stats.averageScore, TotalPerformance(attachees), Len(attachees))

\* a report over two records, one scoring 100 and one scoring 99, so that the mean
\* ends in .5 and the extremes differ
C4_Witness ==
    /\ ReportReturned
    /\ Len(attachees) = 2
    /\ \A k \in 1..Len(attachees) : InRange(attachees[k])
    /\ TotalPerformance(attachees) = 199
    /\ Stats.highestScore = 100
    /\ Stats.lowestScore = 99
    /\ Stats.averageScore = 100

\* the summary the report must hold for record a
C5_SummaryOf(sm, a) ==
    /\ DOMAIN sm = {"name", "division", "performanceScore", "tasksAssigned",
                    "tasksCompleted", "tasksPending", "feedbackCount"}
    /\ sm.name = a.name
    /\ sm.division = a.division
    /\ sm.performanceScore = a.performanceScore
    /\ sm.tasksAssigned = Len(a.tasks)
    /\ sm.tasksCompleted = Cardinality({j \in 1..Len(a.tasks) : a.tasks[j].completed})
    /\ sm.tasksPending = sm.tasksAssigned - sm.tasksCompleted
    /\ sm.feedbackCount = Len(a.feedback)

\* C5: the report has exactly the four division keys and overallStats; the list of
\* a division holds the summaries of that division's records in roster order (empty
\* when it has none); the four lengths add up to totalAttachees; each summary counts
\* assigned, completed and pending tasks of its record.
C5_ReportShape ==
    ReportReturned =>
        LET report == result.value IN
        /\ DOMAIN report = FourDivisions \cup {"overallStats"}
        /\ \A d \in FourDivisions :
              LET members == SelectSeq(attachees, LAMBDA a : a.division = d) IN
              /\ Len(report[d]) = Len(members)
              /\ \A j \in 1..Len(members) : C5_SummaryOf(report[d][j], members[j])
        /\ Len(report["Engineering"]) + Len(report["Tech Programs"])
              + Len(report["Radio Support"]) + Len(report["Hub Support"])
                 = report["overallStats"].totalAttachees

\* a report over two Engineering records that differ in their completed tasks
C5_Witness ==
    /\ ReportReturned
    /\ Len(result.value["Engineering"]) = 2
    /\ result.value["Tech Programs"] = <<>>
    /\ result.value["Engineering"][1].tasksCompleted = 0
    /\ result.value["Engineering"][1].tasksPending = 1
    /\ result.value["Engineering"][2].tasksCompleted = 1
    /\ result.value["Engineering"][2].tasksPending = 0

\* ---- lookups that find nothing ----
\* a lookup by an email no record has
C6_UnknownEmailStep ==
    lastOp'.op \in {"assignTaskToAttachee", "addFeedbackToAttachee"} =>
    \A e \in Emails :
        NoMatch(attachees, e) =>
            /\ (\E t \in Descriptions, dl \in Deadlines, p \in Priorities :
                    AssignTaskToAttachee(e, t, dl, p))
                  => (attachees' = attachees /\ result'.kind # "throw")
            /\ (\E t \in FeedbackTexts, sc \in ScoreArgs, r \in Reviewers, now \in Clock :
                    AddFeedbackToAttachee(e, t, sc, r, now))
                  => (attachees' = attachees /\ result'.kind # "throw")

\* C6: assignTaskToAttachee and addFeedbackToAttachee with an email that matches no
\* record throw nothing and leave the roster and every record unchanged.
C6_UnknownEmailNoOp == [][C6_UnknownEmailStep]_vars

\* addFeedbackToAttachee has just missed on a roster that holds records
C6_Witness ==
    /\ lastOp.op = "addFeedbackToAttachee"
    /\ ~lastOp.found
    /\ Len(attachees) = 2

\* outcomes of completeTask: nothing changed, or one task of record i changed
C7_Unchanged == attachees' = attachees /\ result'.kind # "throw"

C7_OnlyThatTask(i, id, cd) ==
    /\ result'.kind # "throw"
    /\ Len(attachees') = Len(attachees)
    /\ Len(attachees'[i].tasks) = Len(attachees[i].tasks)
    /\ \A k \in 1..Len(attachees[i].tasks) :
          LET t == attachees[i].tasks[k] IN
          attachees'[i].tasks[k] =
              IF t.id = id THEN [t EXCEPT !.completed = TRUE, !.completionDate = cd]
              ELSE t
    /\ \A j \in 1..Len(attachees) : j # i => attachees'[j] = attachees[j]
    /\ [attachees'[i] EXCEPT !.tasks = <<>>] = [attachees[i] EXCEPT !.tasks = <<>>]

C7_CompleteTaskStep ==
    lastOp'.op = "completeTask" =>
    \A i \in 1..Len(attachees), id \in TaskIdArgs, cd \in CompletionDates :
        \/ IF \E k \in 1..Len(attachees[i].tasks) : attachees[i].tasks[k].id = id
           THEN C7_OnlyThatTask(i, id, cd)
           ELSE C7_Unchanged
        \/ ~CompleteTask(i, id, cd)

\* C7: completeTask with an id the attachee does not have throws nothing and leaves
\* every record unchanged; with an id it has, only the task with that id changes,
\* to completed = TRUE and completionDate = the date given.
C7_CompleteTask == [][C7_CompleteTaskStep]_vars

\* completeTask has just missed on a record that has tasks
C7_Witness ==
    /\ lastOp.op = "completeTask"
    /\ ~lastOp.found
    /\ \E k \in 1..Len(attachees) : Len(attachees[k].tasks) = 2

\* ---- task ids and completion ----
C8_IdsDense ==
    \A k \in 1..Len(attachees) :
        \A j \in 1..Len(attachees[k].tasks) : attachees[k].tasks[j].id = j

\* a division-wide assignment gives each member one more task, numbered by that
\* member's own count, and leaves the records of other divisions as they were
C8_DivisionStep ==
    lastOp'.op = "assignTaskToDivision" =>
    \A d \in DivisionArgs :
        (\E t \in Descriptions, dl \in Deadlines, p \in Priorities :
             AssignTaskToDivision(d, t, dl, p)) =>
            /\ Len(attachees') = Len(attachees)
            /\ \A k \in 1..Len(attachees) :
                  IF attachees[k].division = d
                  THEN /\ Len(attachees'[k].tasks) = Len(attachees[k].tasks) + 1
                       /\ attachees'[k].tasks[Len(attachees'[k].tasks)].id
                              = Len(attachees[k].tasks) + 1
                  ELSE attachees'[k] = attachees[k]

\* every operation that adds a task to a record numbers it count + 1
C8_NewIdStep ==
    lastOp'.op \in {"assignTask", "assignTaskToAttachee", "assignTaskToDivision"} =>
        \A k \in 1..Len(attachees) :
            \A j \in (Len(attachees[k].tasks) + 1)..Len(attachees'[k].tasks) :
                attachees'[k].tasks[j].id = Len(attachees[k].tasks) + 1

\* C8: the k-th task of every attachee has id k (unique, 1-based, dense); each new
\* task gets the attachee's own task count + 1 whichever operation assigns it, and a
\* division-wide assignment adds nothing to records of other divisions.
C8_TaskIds == []C8_IdsDense /\ [][C8_DivisionStep /\ C8_NewIdStep]_vars

\* a division-wide assignment has just given a member its task 1 while a record of
\* another division has none
C8_Witness ==
    /\ lastOp.op = "assignTaskToDivision"
    /\ lastOp.found
    /\ Len(attachees) = 2
    /\ attachees[1].division # attachees[2].division
    /\ Len(attachees[1].tasks) = 1 /\ attachees[1].tasks[1].id = 1
    /\ attachees[2].tasks = <<>>

\* C9 as stated: every stored feedback score and every performanceScore is an
\* integer in 0..100, whatever integer scores the callers pass.
C9_ScoresInRange ==
    \A k \in 1..Len(attachees) :
        /\ InRange(attachees[k])
        /\ attachees[k].performanceScore \in 0..100

\* C9 amended: scores are stored as passed, and a record whose stored feedback
\* scores all lie in [0,100] has a performanceScore in 0..100.
C9_InRangeScoresGiveInRangeMean ==
    \A k \in 1..Len(attachees) :
        /\ \A j \in 1..Len(attachees[k].feedback) : attachees[k].feedback[j].score \in ScoreArgs
        /\ InRange(attachees[k]) => attachees[k].performanceScore \in 0..100

\* a record with the two in-range scores 100 and 100
C9_Witness ==
    \E k \in 1..Len(attachees) :
        /\ Len(attachees[k].feedback) = 2
        /\ \A j \in 1..2 : attachees[k].feedback[j].score = 100
        /\ attachees[k].performanceScore = 100

C10_DateOnlyWhenCompleted ==
    \A k \in 1..Len(attachees) :
        \A j \in 1..Len(attachees[k].tasks) :
            ~attachees[k].tasks[j].completed => attachees[k].tasks[j].completionDate = null

\* the tasks of a record that stays in the roster: none removed or reordered,
\* completed stays TRUE, a repeated completion touches the date only, new tasks
\* start uncompleted and undated
C10_TasksKept(old, new) ==
    /\ Len(new.tasks) >= Len(old.tasks)
    /\ \A j \in 1..Len(old.tasks) :
          /\ [new.tasks[j] EXCEPT !.completed = TRUE, !.completionDate = null]
                = [old.tasks[j] EXCEPT !.completed = TRUE, !.completionDate = null]
          /\ old.tasks[j].completed => new.tasks[j].completed
          /\ (lastOp'.op # "completeTask") => new.tasks[j] = old.tasks[j]
    /\ \A j \in (Len(old.tasks) + 1)..Len(new.tasks) :
          ~new.tasks[j].completed /\ new.tasks[j].completionDate = null

C10_Step ==
    IF lastOp'.op = "removeAttachee"
    THEN \A k \in 1..Len(attachees') : \E j \in 1..Len(attachees) : attachees'[k] = attachees[j]
    ELSE /\ Len(attachees') >= Len(attachees)
         /\ \A k \in 1..Len(attachees) : C10_TasksKept(attachees[k], attachees'[k])

\* C10: a task starts uncompleted and undated; completed never goes back to FALSE;
\* an uncompleted task has no completion date; completing a completed task changes
\* its completionDate only; no operation removes or reorders an attachee's tasks.
C10_CompletionMonotone == []C10_DateOnlyWhenCompleted /\ [][C10_Step]_vars

\* completeTask has just hit on a record holding a completed and a pending task
C10_Witness ==
    /\ lastOp.op = "completeTask"
    /\ lastOp.found
    /\ \E k \in 1..Len(attachees) :
          /\ Len(attachees[k].tasks) = 2
          /\ attachees[k].tasks[1].completed
          /\ attachees[k].tasks[1].completionDate = "2023-06-09"
          /\ ~attachees[k].tasks[2].completed

====
